---- MODULE Spec2Model ----
(***************************************************************************)
(* State-machine model of src/App.tsx: the App component (state, result,   *)
(* imagePreview, errorMsg), the asynchronous startProcessing episodes, the *)
(* FileReader loads started by handleUpload and the CameraInterface        *)
(* component with its getUserMedia effect.                                 *)
(*                                                                         *)
(* JavaScript strings are modelled as sequences of tokens; "," is a token  *)
(* of its own so that String.split(',') is computed, not assumed.          *)
(***************************************************************************)
EXTENDS Integers, Sequences, FiniteSets, TLC

\* ---- bounds ----
MaxCalls == 2       \* calls of performAIAnalysis started in one run
MaxUploads == 2     \* files picked in the upload input in one run
MaxMounts == 2      \* times CameraInterface is mounted in one run

\* ---- JavaScript values ----
Null == <<>>
Some(v) == <<v>>

Str(s) == [type |-> "string", val |-> s]
Undefined == [type |-> "undefined", val |-> <<>>]

\* template-literal conversion of a value: undefined prints as "undefined"
TemplateString(v) == IF v.type = "undefined" THEN <<"undefined">> ELSE v.val

\* String.prototype.split(','): the pieces between the "," tokens
RECURSIVE SplitFrom(_, _, _)
SplitFrom(s, i, cur) ==
  IF i > Len(s) THEN <<cur>>
  ELSE IF s[i] = "," THEN <<cur>> \o SplitFrom(s, i + 1, <<>>)
  ELSE SplitFrom(s, i + 1, Append(cur, s[i]))

Split(s) == SplitFrom(s, 1, <<>>)

\* pieces[k] with JavaScript's 0-based index; out of range is undefined
Index(pieces, k) == IF k + 1 <= Len(pieces) THEN Str(pieces[k + 1]) ELSE Undefined

\* ---- enum AppState ----
AppState == {"IDLE", "CAMERA", "ANALYZING", "RESULT", "ERROR"}

\* ---- interface AnalysisResult / responseSchema.required ----
RequiredFields == {"imagingType", "organName", "findings", "professionalDetails"}

\* ---- files the user can pick: contents as byte sequences ----
Files == {<<>>, <<1>>}

\* base64 of the file contents (one-byte files: 0x01 -> "AQ==")
Base64(bytes) == IF bytes = <<>> THEN <<>> ELSE <<"AQ==">>

\* what FileReader.readAsDataURL makes of an empty file depends on the
\* browser the page runs in: the bare prefix "data:" or a data URL with an
\* empty body
Browsers == {"bare-prefix", "empty-body"}

VARIABLE browser

\* FileReader.readAsDataURL: the result handed to reader.onload
ReadAsDataURL(bytes) ==
  IF bytes = <<>>
  THEN IF browser = "bare-prefix"
       THEN { <<"data:">> }
       ELSE { <<"data:application/octet-stream;base64", ",">> }
  ELSE { <<"data:image/jpeg;base64", ",">> \o Base64(bytes) }

\* canvas.toDataURL('image/jpeg', 0.8): a canvas of width or height 0
\* serialises to "data:,"
ToDataURL(hasDimensions) ==
  IF hasDimensions THEN <<"data:image/jpeg;base64", ",", "/9j/4AAQ">>
  ELSE <<"data:", ",">>

\* `data:image/jpeg;base64,${base64}`
PreviewURL(base64) == <<"data:image/jpeg;base64", ",">> \o TemplateString(base64)

\* ---- what the remote service can answer with (response.text) ----
FieldSets == {RequiredFields} \cup {RequiredFields \ {f} : f \in RequiredFields}

Responses ==
  {[kind |-> "object", fields |-> F] : F \in FieldSets}
    \cup {[kind |-> "null", fields |-> {}], [kind |-> "malformed", fields |-> {}]}

\* JSON.parse(response.text) as AnalysisResult: throws on malformed text,
\* otherwise returns whatever the text denotes (the cast checks nothing)
ParseThrows(resp) == resp.kind = "malformed"

JSONParse(resp, base64) ==
  IF resp.kind = "null" THEN Null
  ELSE Some([of |-> base64, fields |-> resp.fields])

ErrorText == "analysis-failed-message"

VARIABLES
  state,         \* useState<AppState>
  result,        \* useState<AnalysisResult | null>
  imagePreview,  \* useState<string | null>
  errorMsg,      \* useState<string | null>
  appMounted,    \* the React tree is mounted (no render has thrown)
  calls,         \* startProcessing invocations awaiting performAIAnalysis
  nextCall,      \* number of performAIAnalysis calls started
  readers,       \* FileReaders with a readAsDataURL in progress
  nextReader,    \* number of FileReaders created
  cams           \* the CameraInterface instances mounted so far

vars == <<state, result, imagePreview, errorMsg, appMounted,
          calls, nextCall, readers, nextReader, cams, browser>>

session == <<state, result, imagePreview, errorMsg>>

Init ==
  /\ state = "IDLE"
  /\ result = Null
  /\ imagePreview = Null
  /\ errorMsg = Null
  /\ appMounted = TRUE
  /\ calls = {}
  /\ nextCall = 0
  /\ readers = {}
  /\ nextReader = 0
  /\ cams = <<>>
  /\ browser \in Browsers

\* ---- CameraInterface ----
\* useEffect body: a fresh instance with getUserMedia requested
NewCamera ==
  [mounted |-> TRUE, gum |-> "pending", open |-> FALSE, stops |-> 0,
   srcObject |-> FALSE, videoReady |-> FALSE]

\* useEffect cleanup: stream?.getTracks().forEach(t => t.stop())
Cleanup(c) ==
  IF ~c.mounted THEN c
  ELSE IF c.gum = "resolved"
       THEN [c EXCEPT !.mounted = FALSE, !.open = FALSE, !.stops = c.stops + 1]
       ELSE [c EXCEPT !.mounted = FALSE]

\* the component tree after the commit that renders newState
Commit(newState, alive) ==
  IF state = "CAMERA" /\ (newState # "CAMERA" \/ ~alive)
  THEN [i \in 1..Len(cams) |-> Cleanup(cams[i])]
  ELSE cams

\* rendering the RESULT view calls result.professionalDetails.map
RenderThrows(s, r) ==
  s = "RESULT" /\ r # Null /\ "professionalDetails" \notin r[1].fields

\* ---- performAIAnalysis / startProcessing ----
\* the call of generateContent made by performAIAnalysis(base64)
performAIAnalysis(base64) ==
  /\ nextCall < MaxCalls
  /\ nextCall' = nextCall + 1
  /\ calls' = calls \cup {[id |-> nextCall + 1, base64 |-> base64]}

\* startProcessing up to its await; state setters of an unmounted tree do nothing
startProcessing(base64) ==
  /\ imagePreview' = IF appMounted THEN Some(PreviewURL(base64)) ELSE imagePreview
  /\ state' = IF appMounted THEN "ANALYZING" ELSE state
  /\ performAIAnalysis(base64)
  /\ cams' = Commit(state', appMounted)
  /\ UNCHANGED <<result, errorMsg, appMounted, browser>>

\* the promise of call c resolves with response resp: the rest of the try
\* block, or the catch block when JSON.parse throws
AnalysisResolve(c, resp) ==
  /\ c \in calls
  /\ calls' = calls \ {c}
  /\ IF ~appMounted
     THEN UNCHANGED <<state, result, errorMsg, appMounted, cams>>
     ELSE IF ParseThrows(resp)
     THEN /\ errorMsg' = Some(ErrorText)
          /\ state' = "ERROR"
          /\ cams' = Commit("ERROR", TRUE)
          /\ UNCHANGED <<result, appMounted>>
     ELSE /\ result' = JSONParse(resp, c.base64)
          /\ state' = "RESULT"
          /\ appMounted' = ~RenderThrows("RESULT", result')
          /\ cams' = Commit("RESULT", appMounted')
          /\ UNCHANGED errorMsg
  /\ UNCHANGED <<imagePreview, nextCall, readers, nextReader, browser>>

\* a catch block that calls performAIAnalysis again instead of giving up
AnalysisRejectRetry(c) ==
  /\ c \in calls
  /\ nextCall < MaxCalls
  /\ nextCall' = nextCall + 1
  /\ calls' = (calls \ {c}) \cup {[id |-> nextCall + 1, base64 |-> c.base64]}
  /\ UNCHANGED <<state, result, imagePreview, errorMsg, appMounted, readers, nextReader, cams, browser>>

\* a rejection that escapes the try block: the call is over, no state is set
AnalysisRejectUncaught(c) ==
  /\ c \in calls
  /\ calls' = calls \ {c}
  /\ UNCHANGED <<state, result, imagePreview, errorMsg, appMounted, nextCall, readers, nextReader, cams, browser>>

\* the promise of call c rejects (transport or service failure): catch block
AnalysisReject(c) ==
  /\ c \in calls
  /\ calls' = calls \ {c}
  /\ IF ~appMounted
     THEN UNCHANGED <<state, errorMsg, cams>>
     ELSE /\ errorMsg' = Some(ErrorText)
          /\ state' = "ERROR"
          /\ cams' = Commit("ERROR", TRUE)
  /\ UNCHANGED <<result, imagePreview, appMounted, nextCall, readers, nextReader, browser>>

\* ---- handleUpload ----
\* onChange of the file input, rendered in IDLE only; noFile: files?.[0] is undefined
handleUpload(noFile, file) ==
  /\ appMounted /\ state = "IDLE"
  /\ IF noFile
     THEN UNCHANGED <<readers, nextReader>>
     ELSE /\ nextReader < MaxUploads
          /\ nextReader' = nextReader + 1
          /\ readers' = readers \cup {[id |-> nextReader + 1, file |-> file]}
  /\ UNCHANGED <<state, result, imagePreview, errorMsg, appMounted, calls, nextCall, cams, browser>>

\* reader.onload: split the data URL and start processing
ReaderOnload(r, url) ==
  /\ r \in readers
  /\ url \in ReadAsDataURL(r.file)
  /\ readers' = readers \ {r}
  /\ startProcessing(Index(Split(url), 1))
  /\ UNCHANGED nextReader

\* ---- CameraInterface ----
\* onClick of the open-camera button (IDLE view); the new instance's effect runs
RequestCamera ==
  /\ appMounted /\ state = "IDLE"
  /\ Len(cams) < MaxMounts
  /\ state' = "CAMERA"
  /\ cams' = Append(cams, NewCamera)
  /\ UNCHANGED <<result, imagePreview, errorMsg, appMounted, calls, nextCall, readers, nextReader, browser>>

\* getUserMedia(...).then: stream = s; if (videoRef.current) srcObject = s
GetUserMediaResolve(i) ==
  /\ i \in 1..Len(cams)
  /\ cams[i].gum = "pending"
  /\ cams' = [cams EXCEPT ![i] = [@ EXCEPT !.gum = "resolved", !.open = TRUE,
                                           !.srcObject = cams[i].mounted]]
  /\ UNCHANGED <<state, result, imagePreview, errorMsg, appMounted, calls, nextCall, readers, nextReader, browser>>

\* getUserMedia(...).catch: alert, nothing else
GetUserMediaReject(i) ==
  /\ i \in 1..Len(cams)
  /\ cams[i].gum = "pending"
  /\ cams' = [cams EXCEPT ![i] = [@ EXCEPT !.gum = "rejected"]]
  /\ UNCHANGED <<state, result, imagePreview, errorMsg, appMounted, calls, nextCall, readers, nextReader, browser>>

\* the video element gets its first frame: videoWidth/videoHeight become non-zero
VideoLoaded(i) ==
  /\ i \in 1..Len(cams)
  /\ cams[i].mounted /\ cams[i].srcObject /\ ~cams[i].videoReady
  /\ cams' = [cams EXCEPT ![i] = [@ EXCEPT !.videoReady = TRUE]]
  /\ UNCHANGED <<state, result, imagePreview, errorMsg, appMounted, calls, nextCall, readers, nextReader, browser>>

\* onClick of the shutter button
handleSnap ==
  /\ appMounted /\ state = "CAMERA"
  /\ startProcessing(Index(Split(ToDataURL(cams[Len(cams)].videoReady)), 1))
  /\ UNCHANGED <<readers, nextReader>>

\* ---- buttons that call setState(AppState.IDLE) ----
SetIdle ==
  /\ state' = "IDLE"
  /\ cams' = Commit("IDLE", TRUE)
  /\ UNCHANGED <<result, imagePreview, errorMsg, appMounted, calls, nextCall, readers, nextReader, browser>>

\* onCancel of CameraInterface
CancelCamera == appMounted /\ state = "CAMERA" /\ SetIdle

\* header button, rendered whenever state !== IDLE
HomeClick == appMounted /\ state # "IDLE" /\ SetIdle

\* "new scan" button of the RESULT view (rendered when result is truthy)
ResetFromResult == appMounted /\ state = "RESULT" /\ result # Null /\ SetIdle

\* "back to start" button of the ERROR view
ResetFromError == appMounted /\ state = "ERROR" /\ SetIdle

Next ==
  \/ \E f \in Files : handleUpload(FALSE, f)
  \/ handleUpload(TRUE, <<>>)
  \/ \E r \in readers : \E url \in ReadAsDataURL(r.file) : ReaderOnload(r, url)
  \/ RequestCamera
  \/ \E i \in 1..Len(cams) : GetUserMediaResolve(i)
  \/ \E i \in 1..Len(cams) : GetUserMediaReject(i)
  \/ \E i \in 1..Len(cams) : VideoLoaded(i)
  \/ handleSnap
  \/ CancelCamera
  \/ HomeClick
  \/ ResetFromResult
  \/ ResetFromError
  \/ \E c \in calls : \E resp \in Responses : AnalysisResolve(c, resp)
  \/ \E c \in calls : AnalysisReject(c)

Spec == Init /\ [][Next]_vars

TypeOK ==
  /\ state \in AppState
  /\ appMounted \in BOOLEAN
  /\ nextCall \in 0..MaxCalls
  /\ nextReader \in 0..MaxUploads
  /\ Len(cams) <= MaxMounts
  /\ browser \in Browsers

\* ---- vocabulary of the claims ----
\* the base64 part of the stored preview (what follows the first ",")
StoredPayload(preview) == IF preview = Null THEN <<>> ELSE Split(preview[1])[2]

NonEmptyBase64(b) == b.type = "string" /\ b.val # <<>>

\* some stream obtained from getUserMedia has live tracks
StreamOpen == \E i \in 1..Len(cams) : cams[i].open

\* the calls that complete in this step
Completed == calls \ calls'

\* the calls started in this step
Started == calls' \ calls

\* call c was not issued by the Analyzing episode the session is in
Stale(c) == state # "ANALYZING" \/ c.id # nextCall

\* the events of the transition table, as steps of the program
Events == {"requestCamera", "imageSelected", "shutterPressed", "cancel",
           "analysisSucceeded", "analysisFailed", "reset"}

Handles(ev) ==
  CASE ev = "requestCamera" -> RequestCamera
    [] ev = "imageSelected" -> \E r \in readers : \E url \in ReadAsDataURL(r.file) : ReaderOnload(r, url)
    [] ev = "shutterPressed" -> handleSnap
    [] ev = "cancel" -> CancelCamera
    [] ev = "analysisSucceeded" ->
         \E c \in calls : \E resp \in Responses : ~ParseThrows(resp) /\ AnalysisResolve(c, resp)
    [] ev = "analysisFailed" ->
         \/ \E c \in calls : AnalysisReject(c)
         \/ \E c \in calls : \E resp \in Responses : ParseThrows(resp) /\ AnalysisResolve(c, resp)
    [] ev = "reset" -> HomeClick \/ ResetFromResult \/ ResetFromError

TableRow(s, ev) ==
  \/ s = "IDLE" /\ ev \in {"requestCamera", "imageSelected"}
  \/ s = "CAMERA" /\ ev \in {"shutterPressed", "cancel"}
  \/ s = "ANALYZING" /\ ev \in {"analysisSucceeded", "analysisFailed"}
  \/ s = "RESULT" /\ ev = "reset"
  \/ s = "ERROR" /\ ev = "reset"

\* C1: result and errorMsg are never both set.
C1_ResultErrorExclusive == ~(result # Null /\ errorMsg # Null)

\* C2: a completion delivered after the session left the Analyzing episode
\* that issued it changes none of state, result, errorMsg, imagePreview.
C2_StaleCompletionDiscarded ==
  [][\A c \in Completed : Stale(c) => UNCHANGED session]_vars

\* C3: at most one call of performAIAnalysis is outstanding at any time.
C3_AtMostOneOutstanding == Cardinality(calls) <= 1

\* C4: an event with no row in the transition table for the current state
\* leaves the state unchanged.  A step that two events explain (the header
\* button and the close button of the camera do the same) is charged to the
\* listed one, so a violation is a step that no listed event explains.
C4_UnlistedEventIsNoOp ==
  [][(\E ev \in Events : Handles(ev))
       => \/ \E ev \in Events : Handles(ev) /\ TableRow(state, ev)
          \/ state' = state]_vars

\* C5: outside RESULT result is unset and outside ERROR errorMsg is unset.
C5_UnsetOutsideOwnState ==
  /\ state # "RESULT" => result = Null
  /\ state # "ERROR" => errorMsg = Null

\* C6: a reset from RESULT or ERROR moves to IDLE with imagePreview, result
\* and errorMsg all unset afterwards.
C6_ResetClears ==
  [][(ResetFromResult \/ ResetFromError \/ (HomeClick /\ state \in {"RESULT", "ERROR"}))
       => state' = "IDLE" /\ imagePreview' = Null /\ result' = Null /\ errorMsg' = Null]_vars

\* C7: no stream is stopped twice, and no stream is open while the session
\* is in IDLE, ANALYZING, RESULT or ERROR.
C7_StreamReleasedExactlyOnce ==
  /\ \A i \in 1..Len(cams) : cams[i].stops <= 1
  /\ state # "CAMERA" => ~StreamOpen

\* C8: every start of processing happens with a non-empty base64 payload,
\* stored as the encoded image.
C8_NonEmptyImageOnEntry ==
  [][\A c \in Started : NonEmptyBase64(c.base64) /\ StoredPayload(imagePreview') # <<>>]_vars

\* C9: the load of a zero-byte file neither enters ANALYZING nor invokes
\* performAIAnalysis.
C9_EmptyUploadRejected ==
  [][\A r \in readers \ readers' : r.file = <<>> => Started = {} /\ state' # "ANALYZING"]_vars

\* C10: a response lacking a required field takes ANALYZING to ERROR with
\* errorMsg set and result unset.
C10_MissingFieldFails ==
  [][\A c \in calls : \A resp \in Responses :
       (resp.kind = "object" /\ resp.fields # RequiredFields
          /\ state = "ANALYZING" /\ AnalysisResolve(c, resp))
       => state' = "ERROR" /\ errorMsg' # Null /\ result' = Null]_vars

\* the streams obtained from getUserMedia whose tracks are live
OpenStreams == {i \in 1..Len(cams) : cams[i].open}

\* C11: cancelling the camera returns to IDLE with imagePreview unset, and
\* in an IDLE that only opening and cancelling the camera led to (no
\* processing was ever started) no camera stream is open.
C11_CancelLeavesNothingBehind ==
  [][(CancelCamera => state' = "IDLE" /\ imagePreview' = Null)
       /\ (state' = "IDLE" /\ nextCall' = 0 => OpenStreams' = {})]_vars

\* C12: from ERROR the reset button is enabled, and from every state other
\* than IDLE some step of the user leads to IDLE.
C12_IdleAlwaysReachable ==
  /\ state = "ERROR" => ENABLED ResetFromError
  /\ state # "IDLE" => ENABLED (HomeClick \/ CancelCamera \/ ResetFromResult \/ ResetFromError)

\* C13: the session leaves ANALYZING only by the completion of the call
\* issued on entry.
C13_OnlyCompletionLeavesAnalyzing ==
  [][(state = "ANALYZING" /\ state' # "ANALYZING")
       => \E c \in Completed : c.id = nextCall]_vars

\* C14: when getUserMedia fails for the mounted camera, the session moves
\* to ERROR with errorMsg set.
C14_CameraFailureFails ==
  [][\A i \in 1..Len(cams) :
       (cams[i].mounted /\ GetUserMediaReject(i)) => state' = "ERROR" /\ errorMsg' # Null]_vars

\* C15: at most one camera stream is open at any time.
C15_AtMostOneStream == Cardinality(OpenStreams) <= 1

\* the step is reader.onload or the shutter's onClick
CaptureEvent ==
  \/ handleSnap
  \/ \E r \in readers : \E url \in ReadAsDataURL(r.file) : ReaderOnload(r, url)

\* C16: a call of performAIAnalysis is started only by a step that handles
\* an imageSelected or shutterPressed event, one call per event, and each
\* entry into ANALYZING starts exactly one; in particular a failed call is
\* not retried.
C16_OneCallPerCapture ==
  [][/\ (nextCall' # nextCall \/ Started # {})
          => CaptureEvent /\ nextCall' = nextCall + 1 /\ Cardinality(Started) = 1
     /\ (state # "ANALYZING" /\ state' = "ANALYZING") => Cardinality(Started) = 1]_vars

\* a call failed, the session is in ERROR and no further call was started
C16_Witness == state = "ERROR" /\ errorMsg # Null /\ nextCall = 1 /\ calls = {}

\* C17: whenever the RESULT view is shown, the stored result is the analysis
\* of the image held in imagePreview.
C17_ResultMatchesImage ==
  (appMounted /\ state = "RESULT" /\ result # Null)
    => imagePreview = Some(PreviewURL(result[1].of))

\* C18: RESULT implies result is non-null and ERROR implies errorMsg is
\* non-null.
C18_ViewsHaveContent ==
  /\ state = "RESULT" => result # Null
  /\ state = "ERROR" => errorMsg # Null

\* C19: processing is started only from IDLE (by a file load) or CAMERA (by
\* the shutter); a file load that fires in any other state starts no call
\* and leaves the state alone.
C19_StartOnlyFromIdleOrCamera ==
  [][/\ Started # {} => state \in {"IDLE", "CAMERA"}
     /\ (readers' # readers /\ nextReader' = nextReader /\ state # "IDLE")
          => Started = {} /\ state' = state]_vars

\* ---- completions are eventually delivered ----
Completion == \E c \in calls : AnalysisReject(c) \/ \E resp \in Responses : AnalysisResolve(c, resp)

FairSpec == Spec /\ WF_vars(Completion)

Outstanding(id) == \E c \in calls : c.id = id

\* C20: when every started call eventually resolves or rejects, ANALYZING
\* is always eventually left, every started call is eventually completed,
\* and a completed call never completes again.
C20_AnalyzingEnds ==
  /\ (state = "ANALYZING") ~> (state # "ANALYZING")
  /\ \A id \in 1..MaxCalls : Outstanding(id) ~> ~Outstanding(id)
  /\ [][\A id \in 1..MaxCalls : (id <= nextCall /\ ~Outstanding(id)) => ~Outstanding(id)']_vars

\* an episode has ended: the session left ANALYZING by a completion
C20_Witness == state \in {"RESULT", "ERROR"} /\ nextCall >= 1 /\ calls = {}

====
